---- MODULE Spec2Model ----
(***************************************************************************)
(* Budget tracker (src/app.py): a Streamlit script.  Every user            *)
(* interaction, and every st.rerun(), executes the script once from the    *)
(* top against st.session_state and the SQLite table monthly_budgets.      *)
(* One action of this model is one execution of the script.                *)
(***************************************************************************)
EXTENDS Integers, Sequences, FiniteSets, TLC

\* ------------------------------------------------------------------ bounds

\* Number of user interactions (widget events, page reloads) in a behaviour.
MaxOps == 4

\* users.id of the accounts that exist (AUTOINCREMENT ids start at 1).
Users == {1, 2}

\* month_year keys "YYYY-MM", numbered in calendar order.
Months == {1, 2}

\* Values the user types into the number inputs.
AmountInputs == {0, 1000}

\* Values typed for the income, a new item's budget, a loan or a lending.
NewAmountInputs == {1000}

\* Groups whose expander the user works in, and the item names typed or touched.
EditGroups == {"EMI", "Variable Expenses"}
NameInputs == {"", " ", "Grocery", "grocery"}

\* Names typed into the loan source / lending person inputs.
SourceInputs == {"", "Bank"}

\* ------------------------------------------------------------- data model

\* st.session_state.user_id = None
NoUser == 0

\* st.session_state.get('last_loaded_month') when the key is missing
NoMonth == 0

\* {} : a dict without keys
EmptyDict == [x \in {} |-> 0]

\* {"budget": b, "spent": s}
Cat(b, s) == [budget |-> b, spent |-> s]

\* d[k] = v on a dict
DictSet(d, k, v) == [x \in (DOMAIN d) \cup {k} |-> IF x = k THEN v ELSE d[x]]

\* del d[k]
DictDel(d, k) == [x \in (DOMAIN d) \ {k} |-> d[x]]

RECURSIVE Sum(_)
\* sum(...) over the values of a dict of integers
Sum(f) ==
  IF DOMAIN f = {} THEN 0
  ELSE LET x == CHOOSE y \in DOMAIN f : TRUE
       IN f[x] + Sum([y \in (DOMAIN f) \ {x} |-> f[y]])

DefaultIncome == 104000

get_default_budgets ==
  ( "Investments" :> ("Mutual Funds" :> Cat(25000, 0) @@ "RD" :> Cat(5000, 0)) ) @@
  ( "Housing" :> ("Room Rent" :> Cat(21000, 0) @@ "Furniture Rent" :> Cat(4000, 0)) ) @@
  ( "Utilities" :> ("Electricity" :> Cat(800, 0) @@ "Water" :> Cat(1000, 0) @@
                    "Mobile WIFI" :> Cat(1500, 0) @@ "Milk" :> Cat(2940, 0)) ) @@
  ( "EMI" :> ("EMI" :> Cat(3600, 0)) ) @@
  ( "Family" :> ("Family Help" :> Cat(20000, 0)) ) @@
  ( "Variable Expenses" :> ("Grocery" :> Cat(8000, 0) @@ "Entertainment" :> Cat(9560, 0) @@
                            "Travel" :> Cat(1600, 0)) )

\* A TEXT column holding json.dumps(v).  valid = FALSE is text json.loads rejects.
json_dumps(v) == [valid |-> TRUE, val |-> v]

\* Text that is not JSON (a damaged column).
BadText == [valid |-> FALSE, val |-> EmptyDict]

\* No row for (user_id, month_year) in monthly_budgets.
NoRow ==
  [present |-> FALSE, income |-> 0, budgets |-> json_dumps(EmptyDict),
   loans |-> json_dumps(EmptyDict), lending |-> json_dumps(EmptyDict)]

VARIABLES
  ss,           \* st.session_state (one browser session)
  paid_widget,  \* "paid-<group>-<name>" checkbox the user left unchecked, or << >>
  db,           \* table monthly_budgets: db[user_id][month_year]
  now,          \* get_current_month()
  rerun,        \* st.rerun() was called: the script is about to run again
  metrics,      \* figures drawn by the last run that reached MAIN METRICS
  ev,           \* what the last run of the script was given and what it did
  taint,        \* users whose stored rows or edits the in-memory data stems from
  seen,         \* <<user_id, month_year, current month>> of the loads that found no row
  ops           \* user interactions so far

vars == <<ss, paid_widget, db, now, rerun, metrics, ev, taint, seen, ops>>

NoKey == << >>

\* Session state of a fresh browser session, after lines 307-312.
FreshSession(clock) ==
  [logged_in |-> FALSE, user_id |-> NoUser, selected_month |-> clock,
   data_loaded |-> FALSE, last_loaded_month |-> NoMonth,
   income |-> 0, budgets |-> EmptyDict, loans |-> EmptyDict, lending |-> EmptyDict]

NoMetrics ==
  [shown |-> FALSE, salary |-> 0, spent |-> 0, loans |-> 0, lending |-> 0,
   remaining |-> 0, total_budgeted |-> 0, weekly |-> EmptyDict]

\* The handler that changed the data and called save_data() in a run, the item
\* it worked on and the value its widget returned.
Fire(op, group, name, val) == [op |-> op, group |-> group, name |-> name, val |-> val]

\* No handler did.
NoFire == Fire("none", "", "", 0)

\* The record of a step: its input, the handler that changed the data and saved
\* it (fired: one did), the branch load_data took ("none": not called), the item
\* the handler or the input is about as it was before, whether the same load
\* had found no row before, and the month that was loaded before the step.
Step(e, by, load, old, again, from) ==
  [op |-> e.op, user |-> e.user, month |-> e.month, group |-> e.group,
   name |-> e.name, val |-> e.val, fired |-> by.op # "none", by |-> by,
   load |-> load, old |-> old, again |-> again, from |-> from]

\* An input of one run of the script.
Event(op, user, month, group, name, val) ==
  [op |-> op, user |-> user, month |-> month, group |-> group, name |-> name, val |-> val]

NoEvent == Event("rerun", NoUser, NoMonth, "", "", 0)

\* The record of a step that is no run of the script.
Quiet(op) ==
  Step(Event(op, NoUser, NoMonth, "", "", 0), NoFire, "none", Cat(0, 0), FALSE, NoMonth)

\* ------------------------------------------------------------- persistence

\* Mutant: the row is returned without its text being parsed.
load_monthly_data_unparsed(d, user_id, month_year) ==
  LET r == d[user_id][month_year]
  IN IF r.present
     THEN [found |-> TRUE, income |-> r.income, budgets |-> r.budgets.val,
           loans |-> r.loans.val, lending |-> r.lending.val]
     ELSE [found |-> FALSE, income |-> 0, budgets |-> EmptyDict,
           loans |-> EmptyDict, lending |-> EmptyDict]

load_monthly_data(d, user_id, month_year) ==
  LET r == d[user_id][month_year]
  IN IF r.present /\ r.budgets.valid /\ r.loans.valid /\ r.lending.valid
     THEN [found |-> TRUE, income |-> r.income, budgets |-> r.budgets.val,
           loans |-> r.loans.val, lending |-> r.lending.val]
     ELSE [found |-> FALSE, income |-> 0, budgets |-> EmptyDict,
           loans |-> EmptyDict, lending |-> EmptyDict]

save_monthly_data(d, user_id, month_year, income, budgets, loans, lending) ==
  [d EXCEPT ![user_id][month_year] =
     [present |-> TRUE, income |-> income, budgets |-> json_dumps(budgets),
      loans |-> json_dumps(loans), lending |-> json_dumps(lending)]]

\* month_year of the user's rows (the list is ordered DESC in the code).
get_available_months(d, user_id) == {m \in Months : d[user_id][m].present}

\* Which branch of load_data is taken.
load_branch(s, d, clock) ==
  IF load_monthly_data(d, s.user_id, s.selected_month).found THEN "row"
  ELSE IF s.selected_month = clock THEN "defaults" ELSE "empty"

\* Mutant: a month without a row keeps what the session holds.
load_data_keep(s, d, clock) ==
  LET monthly_data == load_monthly_data(d, s.user_id, s.selected_month)
  IN IF monthly_data.found
     THEN [s EXCEPT !.income = monthly_data.income, !.budgets = monthly_data.budgets,
                    !.loans = monthly_data.loans, !.lending = monthly_data.lending]
     ELSE s

load_data(s, d, clock) ==
  LET monthly_data == load_monthly_data(d, s.user_id, s.selected_month)
      is_current_month == (s.selected_month = clock)
  IN IF monthly_data.found
     THEN [s EXCEPT !.income = monthly_data.income, !.budgets = monthly_data.budgets,
                    !.loans = monthly_data.loans, !.lending = monthly_data.lending]
     ELSE IF is_current_month
          THEN [s EXCEPT !.income = DefaultIncome, !.budgets = get_default_budgets,
                         !.loans = EmptyDict, !.lending = EmptyDict]
          ELSE [s EXCEPT !.income = 0, !.budgets = EmptyDict,
                         !.loans = EmptyDict, !.lending = EmptyDict]

save_data(s, d) ==
  save_monthly_data(d, s.user_id, s.selected_month, s.income, s.budgets, s.loans, s.lending)

\* ------------------------------------------------------------------ helpers

total_spent(budgets) ==
  Sum([g \in DOMAIN budgets |-> Sum([n \in DOMAIN budgets[g] |-> budgets[g][n].spent])])

\* Mutant: only items with something spent are counted.
total_budget_active(budgets) ==
  Sum([g \in DOMAIN budgets |->
        Sum([n \in DOMAIN budgets[g] |->
              IF budgets[g][n].spent > 0 THEN budgets[g][n].budget ELSE 0])])

total_budget(budgets) ==
  Sum([g \in DOMAIN budgets |-> Sum([n \in DOMAIN budgets[g] |-> budgets[g][n].budget])])

loan_total(loans) == Sum(loans)

lending_total(lending) == Sum(lending)

Max(S) == CHOOSE x \in S : \A y \in S : y <= x

HasCat(budgets, g, n) == g \in DOMAIN budgets /\ n \in DOMAIN budgets[g]

\* Line 791: the names the weekly guide looks for.
variable_categories == {"Grocery", "Entertainment", "Travel"}

\* The groups in the order the budgets dict holds them: that of
\* get_default_budgets(), which json.dumps and json.loads keep.
GroupOrder == <<"Investments", "Housing", "Utilities", "EMI", "Family", "Variable Expenses">>

\* Line 801.
weeks_remaining == 4

\* int(x / y) for y > 0: Python's int() truncates toward zero.
int_div(x, y) == IF x >= 0 THEN x \div y ELSE -((-x) \div y)

\* Lines 794-798: variable_budgets[name] and variable_spent[name] are assigned
\* for every group that has an item of that name; the last assignment stays.
variable_item(budgets, name) ==
  LET idx == {i \in DOMAIN GroupOrder : HasCat(budgets, GroupOrder[i], name)}
  IN budgets[GroupOrder[Max(idx)]][name]

\* Lines 787-819: the Weekly Spending Guide, drawn for the current month only:
\* one card for each name of variable_categories that some group has.
weekly_guide(s, clock) ==
  IF s.selected_month # clock THEN EmptyDict
  ELSE [category \in {c \in variable_categories :
                        \E g \in DOMAIN s.budgets : c \in DOMAIN s.budgets[g]} |->
          LET budget == variable_item(s.budgets, category).budget
              spent == variable_item(s.budgets, category).spent
              remaining == budget - spent
          IN [budget |-> budget, spent |-> spent, remaining |-> remaining,
              weekly_allowance |-> IF weeks_remaining > 0
                                   THEN int_div(remaining, weeks_remaining) ELSE 0]]

\* Mutant: the money lent is deducted as well.
MainMetrics_lent(s, clock) ==
  LET SALARY == s.income
      spent == total_spent(s.budgets)
      loans == loan_total(s.loans)
      lending == lending_total(s.lending)
  IN [shown |-> TRUE, salary |-> SALARY, spent |-> spent, loans |-> loans,
      lending |-> lending, remaining |-> SALARY - spent - loans - lending,
      total_budgeted |-> total_budget(s.budgets), weekly |-> weekly_guide(s, clock)]

\* QUICK STATS, MAIN METRICS and the weekly guide of a run that reaches them.
MainMetrics(s, clock) ==
  LET SALARY == s.income
      spent == total_spent(s.budgets)
      loans == loan_total(s.loans)
      lending == lending_total(s.lending)
  IN [shown |-> TRUE, salary |-> SALARY, spent |-> spent, loans |-> loans,
      lending |-> lending, remaining |-> SALARY - spent - loans,
      total_budgeted |-> total_budget(s.budgets), weekly |-> weekly_guide(s, clock)]

\* The months offered by the selectbox.
month_options(d, user_id, clock) == get_available_months(d, user_id) \cup {clock}

\* The first entry of the option list: the current month when it was inserted at
\* index 0, else the newest stored month.
first_option(d, user_id, clock) ==
  IF clock \notin get_available_months(d, user_id) THEN clock
  ELSE Max(get_available_months(d, user_id))

is_paid(data) == data.spent = data.budget

\* ------------------------------------------------------- one run of the script

\* What a run leaves behind.  rerun: it ended in st.rerun(); rendered: it reached
\* MAIN METRICS; by: the handler that changed the data and called save_data()
\* (for the paid checkbox val is 1 when it was ticked, 0 when unticked);
\* load: the branch load_data took, "none" when it was not called.
Out(s, w, d, rr, rendered, by, load) ==
  [ss |-> s, paid_widget |-> w, db |-> d, rerun |-> rr, rendered |-> rendered,
   by |-> by, load |-> load]

\* Lines 315-392: the login page.
login_page(s, w, d, clock, e) ==
  IF e.op = "login" /\ e.user # NoUser
  THEN Out([s EXCEPT !.logged_in = TRUE, !.user_id = e.user, !.selected_month = clock],
           w, d, TRUE, FALSE, NoFire, "none")
  ELSE Out(s, w, d, FALSE, FALSE, NoFire, "none")

\* Lines 664-713: Loans Taken and Money Lent.
loans_section(s, w, d, e, load) ==
  IF e.op = "del_loan" /\ e.name \in DOMAIN s.loans
  THEN LET s2 == [s EXCEPT !.loans = DictDel(s.loans, e.name)]
       IN Out(s2, w, save_data(s2, d), TRUE, FALSE, Fire(e.op, "", e.name, e.val), load)
  ELSE IF e.op = "add_loan" /\ e.name # ""
  THEN LET s2 == [s EXCEPT !.loans = DictSet(s.loans, e.name, e.val)]
       IN Out(s2, w, save_data(s2, d), TRUE, FALSE, Fire(e.op, "", e.name, e.val), load)
  ELSE IF e.op = "del_lending" /\ e.name \in DOMAIN s.lending
  THEN LET s2 == [s EXCEPT !.lending = DictDel(s.lending, e.name)]
       IN Out(s2, w, save_data(s2, d), TRUE, FALSE, Fire(e.op, "", e.name, e.val), load)
  ELSE IF e.op = "add_lending" /\ e.name # ""
  THEN LET s2 == [s EXCEPT !.lending = DictSet(s.lending, e.name, e.val)]
       IN Out(s2, w, save_data(s2, d), TRUE, FALSE, Fire(e.op, "", e.name, e.val), load)
  ELSE Out(s, w, d, FALSE, TRUE, NoFire, load)

\* Lines 601-610: the paid checkbox of one item.
paid_checkbox(s, w, d, g, n, paid, load) ==
  LET data == s.budgets[g][n]
  IN IF paid /\ ~is_paid(data)
     THEN LET s2 == [s EXCEPT !.budgets[g][n].spent = data.budget]
          IN Out(s2, NoKey, save_data(s2, d), TRUE, FALSE, Fire("paid", g, n, 1), load)
     ELSE IF ~paid /\ is_paid(data)
     THEN LET s2 == [s EXCEPT !.budgets[g][n].spent = 0]
          IN Out(s2, <<g, n>>, save_data(s2, d), TRUE, FALSE, Fire("paid", g, n, 0), load)
     ELSE Out(s, NoKey, d, FALSE, TRUE, NoFire, load)

\* Mutant: the spent edit is not saved.
spent_input_unsaved(s, w, d, g, n, new_spent, load) ==
  IF new_spent # s.budgets[g][n].spent
  THEN LET s2 == [s EXCEPT !.budgets[g][n].spent = new_spent]
       IN Out(s2, w, d, FALSE, TRUE, Fire("spent", g, n, new_spent), load)
  ELSE Out(s, w, d, FALSE, TRUE, NoFire, load)

\* Mutant: the value typed is added to what was spent.
spent_input_added(s, w, d, g, n, new_spent, load) ==
  IF new_spent # s.budgets[g][n].spent
  THEN LET s2 == [s EXCEPT !.budgets[g][n].spent = s.budgets[g][n].spent + new_spent]
       IN Out(s2, w, save_data(s2, d), FALSE, TRUE, Fire("spent", g, n, new_spent), load)
  ELSE Out(s, w, d, FALSE, TRUE, NoFire, load)

\* Lines 615-626: the spent number_input of one item.
spent_input(s, w, d, g, n, new_spent, load) ==
  IF new_spent # s.budgets[g][n].spent
  THEN LET s2 == [s EXCEPT !.budgets[g][n].spent = new_spent]
       IN Out(s2, w, save_data(s2, d), FALSE, TRUE, Fire("spent", g, n, new_spent), load)
  ELSE Out(s, w, d, FALSE, TRUE, NoFire, load)

\* Mutant: the item is written anew with the budget typed, whatever it was.
budget_input_rewrite(s, w, d, g, n, new_budget, load) ==
  LET s2 == [s EXCEPT !.budgets[g][n] = Cat(new_budget, 0)]
  IN Out(s2, w, save_data(s2, d), FALSE, TRUE, Fire("budget", g, n, new_budget), load)

\* Lines 628-639: the budget number_input of one item.
budget_input(s, w, d, g, n, new_budget, load) ==
  IF new_budget # s.budgets[g][n].budget
  THEN LET s2 == [s EXCEPT !.budgets[g][n].budget = new_budget]
       IN Out(s2, w, save_data(s2, d), FALSE, TRUE, Fire("budget", g, n, new_budget), load)
  ELSE Out(s, w, d, FALSE, TRUE, NoFire, load)

\* Mutant: the item is emptied of its budget but stays, with what was spent.
delete_category_budget_only(s, w, d, g, n, load) ==
  LET s2 == [s EXCEPT !.budgets[g][n].budget = 0]
  IN Out(s2, w, save_data(s2, d), TRUE, FALSE, Fire("delete", g, n, 0), load)

\* Lines 641-645: the delete button of one item.
delete_category(s, w, d, g, n, load) ==
  LET s2 == [s EXCEPT !.budgets[g] = DictDel(s.budgets[g], n)]
  IN Out(s2, w, save_data(s2, d), TRUE, FALSE, Fire("delete", g, n, 0), load)

\* Mutant: an existing name is overwritten.
add_category_overwrite(s, w, d, group, new_name, new_budget, load) ==
  IF new_name # ""
  THEN LET s2 == [s EXCEPT !.budgets[group] =
                     DictSet(s.budgets[group], new_name, Cat(new_budget, 0))]
       IN Out(s2, w, save_data(s2, d), TRUE, FALSE, Fire("add", group, new_name, new_budget), load)
  ELSE Out(s, w, d, FALSE, TRUE, NoFire, load)

\* Lines 647-660: the add_{group} form.
add_category(s, w, d, group, new_name, new_budget, load) ==
  IF new_name # "" /\ new_name \notin DOMAIN s.budgets[group]
  THEN LET s2 == [s EXCEPT !.budgets[group] =
                     DictSet(s.budgets[group], new_name, Cat(new_budget, 0))]
       IN Out(s2, w, save_data(s2, d), TRUE, FALSE, Fire("add", group, new_name, new_budget), load)
  ELSE Out(s, w, d, FALSE, TRUE, NoFire, load)

\* Lines 592-660: the category expanders.  A checkbox whose widget still holds
\* the user's "unchecked" while its value= argument is unchanged (True) returns
\* False again; with another value= it is a new widget and returns its default.
\* The values of widgets a run did not draw are dropped, also when st.rerun()
\* ended the run: no other widget returns a value the user did not just give.
categories(s, w, d, e, load) ==
  IF w # NoKey /\ HasCat(s.budgets, w[1], w[2]) /\ is_paid(s.budgets[w[1]][w[2]])
  THEN paid_checkbox(s, w, d, w[1], w[2], FALSE, load)
  ELSE IF e.op = "paid" /\ HasCat(s.budgets, e.group, e.name)
  THEN paid_checkbox(s, NoKey, d, e.group, e.name, ~is_paid(s.budgets[e.group][e.name]), load)
  ELSE IF e.op = "spent" /\ HasCat(s.budgets, e.group, e.name)
  THEN spent_input(s, NoKey, d, e.group, e.name, e.val, load)
  ELSE IF e.op = "budget" /\ HasCat(s.budgets, e.group, e.name)
  THEN budget_input(s, NoKey, d, e.group, e.name, e.val, load)
  ELSE IF e.op = "delete" /\ HasCat(s.budgets, e.group, e.name)
  THEN delete_category(s, NoKey, d, e.group, e.name, load)
  ELSE IF e.op = "add" /\ e.group \in DOMAIN s.budgets
  THEN add_category(s, NoKey, d, e.group, e.name, e.val, load)
  ELSE loans_section(s, NoKey, d, e, load)

\* Lines 566-571: the income number_input.
income_input(s, w, d, e, load) ==
  IF e.op = "income" /\ e.val # s.income
  THEN LET s2 == [s EXCEPT !.income = e.val]
       IN Out(s2, w, save_data(s2, d), TRUE, FALSE, Fire("income", "", "", e.val), load)
  ELSE categories(s, w, d, e, load)

\* Mutant: the data in memory is saved under the month switched to.
month_selector_saving(s, w, d, clock, e, load) ==
  LET options == month_options(d, s.user_id, clock)
      current == IF s.selected_month \in options THEN s.selected_month
                 ELSE first_option(d, s.user_id, clock)
      selected_month_value == IF e.op = "select" /\ e.month \in options
                              THEN e.month ELSE current
      s2 == [s EXCEPT !.selected_month = selected_month_value]
  IN IF selected_month_value # s.selected_month
     THEN Out(s2, w, save_data(s2, d), TRUE, FALSE, NoFire, load)
     ELSE income_input(s, w, d, e, load)

\* Lines 519-558: the month selectbox.
month_selector(s, w, d, clock, e, load) ==
  LET options == month_options(d, s.user_id, clock)
      current == IF s.selected_month \in options THEN s.selected_month
                 ELSE first_option(d, s.user_id, clock)
      selected_month_value == IF e.op = "select" /\ e.month \in options
                              THEN e.month ELSE current
  IN IF selected_month_value # s.selected_month
     THEN Out([s EXCEPT !.selected_month = selected_month_value],
              w, d, TRUE, FALSE, NoFire, load)
     ELSE income_input(s, w, d, e, load)

\* Lines 504-509: the logout button.
logout_button(s, w, d, clock, e, load) ==
  IF e.op = "logout"
  THEN Out([s EXCEPT !.logged_in = FALSE, !.user_id = NoUser],
           w, d, TRUE, FALSE, NoFire, load)
  ELSE month_selector(s, w, d, clock, e, load)

\* Line 437: the condition under which the data is loaded.
need_load(s) == ~s.data_loaded \/ s.last_loaded_month # s.selected_month

\* Mutant: a new month takes over the session's items and budgets, nothing spent.
load_on_change_carry(s, d, clock) ==
  IF need_load(s)
  THEN IF load_monthly_data(d, s.user_id, s.selected_month).found \/ ~s.data_loaded
       THEN [load_data(s, d, clock) EXCEPT !.data_loaded = TRUE,
                                           !.last_loaded_month = s.selected_month]
       ELSE [s EXCEPT !.budgets = [g \in DOMAIN s.budgets |->
                                     [n \in DOMAIN s.budgets[g] |->
                                        Cat(s.budgets[g][n].budget, 0)]],
                      !.last_loaded_month = s.selected_month]
  ELSE s

\* Lines 436-440: load data on startup or month change.
load_on_change(s, d, clock) ==
  IF need_load(s)
  THEN [load_data(s, d, clock) EXCEPT !.data_loaded = TRUE,
                                      !.last_loaded_month = s.selected_month]
  ELSE s

\* One execution of app.py.
Script(s, w, d, clock, e) ==
  IF ~s.logged_in
  THEN login_page(s, w, d, clock, e)
  ELSE logout_button(load_on_change(s, d, clock), w, d, clock, e,
                     IF need_load(s) THEN load_branch(s, d, clock) ELSE "none")

\* ------------------------------------------------------------------ actions

\* The item the handler that fired, or else the input, is about, as it was
\* before the run.
OldCat(e, by) ==
  LET g == IF by.op # "none" THEN by.group ELSE e.group
      n == IF by.op # "none" THEN by.name ELSE e.name
  IN IF HasCat(ss.budgets, g, n) THEN ss.budgets[g][n] ELSE Cat(0, 0)

\* The run of the script on input e.
Run(e) ==
  \E o \in {Script(ss, paid_widget, db, now, e)} :
  LET loaded == IF o.load = "row" THEN {ss.user_id}
                ELSE IF o.load = "none" THEN taint ELSE {}
      triple == <<ss.user_id, ss.selected_month, now>>
      norow == o.load \in {"defaults", "empty"}
      fired == o.by.op # "none"
  IN /\ ss' = o.ss
     /\ paid_widget' = o.paid_widget
     /\ db' = o.db
     /\ rerun' = o.rerun
     /\ metrics' = IF o.rendered THEN MainMetrics(o.ss, now)
                   ELSE IF o.ss.logged_in THEN metrics ELSE NoMetrics
     /\ ev' = Step(e, o.by, o.load, OldCat(e, o.by), norow /\ triple \in seen,
                   ss.last_loaded_month)
     /\ seen' = IF norow THEN seen \cup {triple} ELSE seen
     /\ taint' = IF fired THEN loaded \cup {ss.user_id} ELSE loaded
     /\ UNCHANGED now

\* A user interaction: the script runs on it once no rerun is outstanding.
UserEvent(e) ==
  /\ ~rerun
  /\ ops < MaxOps
  /\ ops' = ops + 1
  /\ Run(e)

Login ==
  \E u \in Users \cup {NoUser} :
    /\ ~ss.logged_in
    /\ UserEvent(Event("login", u, NoMonth, "", "", 0))

Logout ==
  /\ ss.logged_in
  /\ UserEvent(Event("logout", NoUser, NoMonth, "", "", 0))

SelectMonth ==
  \E m \in Months :
    /\ ss.logged_in
    /\ m \in month_options(db, ss.user_id, now)
    /\ UserEvent(Event("select", NoUser, m, "", "", 0))

IncomeInput ==
  \E v \in NewAmountInputs :
    /\ ss.logged_in
    /\ UserEvent(Event("income", NoUser, NoMonth, "", "", v))

PaidCheckbox ==
  \E g \in EditGroups, n \in NameInputs :
    /\ ss.logged_in
    /\ HasCat(ss.budgets, g, n)
    /\ UserEvent(Event("paid", NoUser, NoMonth, g, n, 0))

SpentInput ==
  \E g \in EditGroups, n \in NameInputs, v \in AmountInputs :
    /\ ss.logged_in
    /\ HasCat(ss.budgets, g, n)
    /\ UserEvent(Event("spent", NoUser, NoMonth, g, n, v))

BudgetInput ==
  \E g \in EditGroups, n \in NameInputs, v \in AmountInputs :
    /\ ss.logged_in
    /\ HasCat(ss.budgets, g, n)
    /\ UserEvent(Event("budget", NoUser, NoMonth, g, n, v))

DeleteCategory ==
  \E g \in EditGroups, n \in NameInputs :
    /\ ss.logged_in
    /\ HasCat(ss.budgets, g, n)
    /\ UserEvent(Event("delete", NoUser, NoMonth, g, n, 0))

AddCategory ==
  \E g \in EditGroups, n \in NameInputs, v \in NewAmountInputs :
    /\ ss.logged_in
    /\ g \in DOMAIN ss.budgets
    /\ UserEvent(Event("add", NoUser, NoMonth, g, n, v))

AddLoan ==
  \E n \in SourceInputs, v \in NewAmountInputs :
    /\ ss.logged_in
    /\ UserEvent(Event("add_loan", NoUser, NoMonth, "", n, v))

DeleteLoan ==
  \E n \in SourceInputs :
    /\ ss.logged_in
    /\ n \in DOMAIN ss.loans
    /\ UserEvent(Event("del_loan", NoUser, NoMonth, "", n, 0))

AddLending ==
  \E n \in SourceInputs, v \in NewAmountInputs :
    /\ ss.logged_in
    /\ UserEvent(Event("add_lending", NoUser, NoMonth, "", n, v))

DeleteLending ==
  \E n \in SourceInputs :
    /\ ss.logged_in
    /\ n \in DOMAIN ss.lending
    /\ UserEvent(Event("del_lending", NoUser, NoMonth, "", n, 0))

\* st.rerun(): the script runs again with no new input.
Rerun ==
  /\ rerun
  /\ Run(NoEvent)
  /\ UNCHANGED ops

\* The browser page is reloaded: a new session, the database stays.
NewSession ==
  /\ ops < MaxOps
  /\ ops' = ops + 1
  /\ ss' = FreshSession(now)
  /\ paid_widget' = NoKey
  /\ rerun' = FALSE
  /\ metrics' = NoMetrics
  /\ ev' = Quiet("reload")
  /\ taint' = {}
  /\ UNCHANGED <<db, now, seen>>

\* The calendar month ends.
Tick ==
  /\ now + 1 \in Months
  /\ now' = now + 1
  /\ ev' = Quiet("tick")
  /\ UNCHANGED <<ss, paid_widget, db, rerun, metrics, taint, seen, ops>>

\* While nobody is logged in the budgets column of one stored row is damaged (no
\* longer JSON); one row is damaged at a time.
DamageRow ==
  \E u \in Users, m \in Months :
    /\ ~rerun
    /\ ~ss.logged_in
    /\ db[u][m].present
    /\ \A u2 \in Users, m2 \in Months : db[u2][m2].budgets.valid
    /\ db' = [db EXCEPT ![u][m].budgets = BadText]
    /\ ev' = Quiet("damage")
    /\ UNCHANGED <<ss, paid_widget, now, rerun, metrics, taint, seen, ops>>

Init ==
  /\ ss = FreshSession(1)
  /\ paid_widget = NoKey
  /\ db = [u \in Users |-> [m \in Months |-> NoRow]]
  /\ now = 1
  /\ rerun = FALSE
  /\ metrics = NoMetrics
  /\ ev = Quiet("start")
  /\ taint = {}
  /\ seen = {}
  /\ ops = 0

Next ==
  \/ Login
  \/ Logout
  \/ SelectMonth
  \/ IncomeInput
  \/ PaidCheckbox
  \/ SpentInput
  \/ BudgetInput
  \/ DeleteCategory
  \/ AddCategory
  \/ AddLoan
  \/ DeleteLoan
  \/ AddLending
  \/ DeleteLending
  \/ Rerun
  \/ NewSession
  \/ Tick

\* Normal operation: the database answers every query.
Spec == Init /\ [][Next]_vars

NextFault == Next \/ DamageRow

\* Operation with storage faults: stored rows may get damaged.
SpecFault == Init /\ [][NextFault]_vars

\* ------------------------------------------------------------------- claims

\* The data part of the session state.
Data(s) == [income |-> s.income, budgets |-> s.budgets, loans |-> s.loans, lending |-> s.lending]

\* What a stored row holds, decoded.
RowData(r) ==
  [income |-> r.income, budgets |-> r.budgets.val, loans |-> r.loans.val,
   lending |-> r.lending.val]

DefaultData ==
  [income |-> 104000, budgets |-> get_default_budgets, loans |-> EmptyDict,
   lending |-> EmptyDict]

EmptyData ==
  [income |-> 0, budgets |-> EmptyDict, loans |-> EmptyDict, lending |-> EmptyDict]

\* The (group, name) pairs of all items.
Keys(budgets) == {k \in UNION {{<<g, n>> : n \in DOMAIN budgets[g]} : g \in DOMAIN budgets} : TRUE}

RECURSIVE SumOver(_, _, _)
\* The sum of field f ("budget" or "spent") over the items K of budgets.
SumOver(budgets, K, f) ==
  IF K = {} THEN 0
  ELSE LET k == CHOOSE x \in K : TRUE
       IN (IF f = "spent" THEN budgets[k[1]][k[2]].spent ELSE budgets[k[1]][k[2]].budget)
          + SumOver(budgets, K \ {k}, f)

RECURSIVE SumVals(_, _)
SumVals(d, K) ==
  IF K = {} THEN 0
  ELSE LET k == CHOOSE x \in K : TRUE IN d[k] + SumVals(d, K \ {k})

\* Every item other than (g, n) is the same before and after the step.
OthersUnchanged(g, n) ==
  \A k \in Keys(ss.budgets) \ {<<g, n>>} :
     /\ HasCat(ss'.budgets, k[1], k[2])
     /\ ss'.budgets[k[1]][k[2]] = ss.budgets[k[1]][k[2]]

\* A page of the dashboard is on display and no rerun is outstanding.
Displayed == metrics.shown /\ ~rerun

\* The month load_data loaded last.
LoadedMonth == ss.last_loaded_month

\* C1: per-user isolation across login/logout: the in-memory data shown to the
\* logged-in user stems only from that user's stored rows, the defaults and that
\* user's own edits, never from rows loaded or edits made while another user
\* was logged in.
C1_Isolation == (ss.logged_in /\ ~rerun) => taint \subseteq {ss.user_id}

\* C2: the reported remaining is the income minus the spent of every item of
\* every group minus the sum of all loans taken, each at its full amount; the
\* money lent is no part of it.
C2_Remaining ==
  Displayed =>
    /\ metrics.remaining = ss.income - SumOver(ss.budgets, Keys(ss.budgets), "spent")
                                     - SumVals(ss.loans, DOMAIN ss.loans)
    /\ metrics.loans = SumVals(ss.loans, DOMAIN ss.loans)
    /\ metrics.lending = SumVals(ss.lending, DOMAIN ss.lending)

C2_Witness ==
  /\ Displayed
  /\ metrics.spent > 0
  /\ metrics.loans > 0
  /\ metrics.lending > 0
  /\ metrics.remaining = ss.income - metrics.spent - metrics.loans

\* C3: deleting an item removes it together with what was spent under it: right
\* afterwards total spent and total budgeted hold no contribution of it, and the
\* budget and spent of every other item are unchanged.
C3_DeleteRemoves ==
  [][ (ev'.op = "delete" /\ ev'.fired) =>
        /\ ~HasCat(ss'.budgets, ev'.group, ev'.name)
        /\ total_spent(ss'.budgets) = total_spent(ss.budgets) - ev'.old.spent
        /\ total_budget(ss'.budgets) = total_budget(ss.budgets) - ev'.old.budget
        /\ total_spent(ss'.budgets) =
             SumOver(ss.budgets, Keys(ss.budgets) \ {<<ev'.group, ev'.name>>}, "spent")
        /\ total_budget(ss'.budgets) =
             SumOver(ss.budgets, Keys(ss.budgets) \ {<<ev'.group, ev'.name>>}, "budget")
        /\ OthersUnchanged(ev'.group, ev'.name)
        /\ Keys(ss'.budgets) = Keys(ss.budgets) \ {<<ev'.group, ev'.name>>}
    ]_vars

C3_Witness ==
  /\ ev.op = "delete"
  /\ ev.fired
  /\ ev.old.spent = 1000
  /\ ev.old.budget = 1000
  /\ ~HasCat(ss.budgets, ev.group, ev.name)
  /\ total_spent(ss.budgets) = 0
  /\ total_budget(ss.budgets) = 104000

\* The steps in which a mutation handler ran to its save_data() call.
MutationOps ==
  {"income", "paid", "spent", "budget", "add", "delete",
   "add_loan", "del_loan", "add_lending", "del_lending", "rerun"}

C5_MonthRollover ==
  [][ /\ (ev'.load \in {"defaults", "empty"} =>
            /\ ~db[ss.user_id][LoadedMonth'].present
            /\ \A k \in Keys(ss'.budgets) : ss'.budgets[k[1]][k[2]].spent = 0
            /\ Data(ss') = IF LoadedMonth' = now' THEN DefaultData ELSE EmptyData
            /\ db' = db)
      /\ (ev'.load = "row" =>
            /\ Data(ss') = RowData(db[ss.user_id][LoadedMonth'])
            /\ db' = db)
      /\ (ss'.logged_in /\ ~rerun' =>
            \A m \in Months : db'[ss'.user_id][m].present =>
               /\ m \in month_options(db', ss'.user_id, now')
               /\ load_monthly_data(db', ss'.user_id, m).found)
    ]_vars

C5_Witness ==
  /\ ev.load = "defaults"
  /\ ev.again
  /\ ~db[ss.user_id][LoadedMonth].present
  /\ Keys(ss.budgets) # {}
  /\ \A k \in Keys(ss.budgets) : ss.budgets[k[1]][k[2]].spent = 0

\* The user's stored row of the month before m.
HasPrev(u, m) == (m - 1) \in Months /\ db[u][m - 1].present

\* The items and budgets of a stored state with nothing spent.
Unspent(budgets) ==
  [g \in DOMAIN budgets |-> [n \in DOMAIN budgets[g] |-> Cat(budgets[g][n].budget, 0)]]

\* C6 as stated: when a new month begins only the spent data is emptied; the
\* item names, budgets and earnings of the end of the previous month are in effect.
C6_CategoriesCarryOver ==
  [][ (ev'.load = "defaults" /\ HasPrev(ss.user_id, LoadedMonth')) =>
        LET prev == RowData(db[ss.user_id][LoadedMonth' - 1])
        IN /\ ss'.income = prev.income
           /\ ss'.budgets = Unspent(prev.budgets)
    ]_vars

\* C6 as amended: when a new month (no stored row) begins, nothing is spent and
\* the items, budgets and earnings in effect are the built-in defaults, whatever
\* the previous month held; the previous month's row stays stored as it was.
C6_NewMonthDefaults ==
  [][ (ev'.load = "defaults" /\ HasPrev(ss.user_id, LoadedMonth')) =>
        /\ ss'.income = 104000
        /\ ss'.budgets = get_default_budgets
        /\ total_budget(ss'.budgets) = 104000
        /\ total_spent(ss'.budgets) = 0
        /\ ss'.loans = EmptyDict /\ ss'.lending = EmptyDict
        /\ db' = db
    ]_vars

C6_Witness ==
  /\ ev.load = "defaults"
  /\ LoadedMonth = now
  /\ HasPrev(ss.user_id, LoadedMonth)
  /\ RowData(db[ss.user_id][LoadedMonth - 1]).income # ss.income
  /\ Keys(RowData(db[ss.user_id][LoadedMonth - 1]).budgets) # Keys(ss.budgets)
  /\ ss.income = 104000

\* str.strip() on the names typed.
Strip(name) == IF name \in {" ", "  "} THEN "" ELSE name

\* C7: adding an item whose name is empty or whitespace-only after trimming is
\* rejected: no item is created, the in-memory state is unchanged and nothing
\* is stored.
C7_BlankNameRejected ==
  [][ (ev'.op = "add" /\ Strip(ev'.name) = "") =>
        /\ ~ev'.fired
        /\ Data(ss') = Data(ss)
        /\ db' = db
    ]_vars

\* C8: item names are unique within a group, not across groups: adding a name
\* the group already has (exact match) is rejected and leaves that item as it
\* was; the same name may be added to another group, and the two items keep
\* budget and spent values of their own.
C8_UniqueWithinGroup ==
  [][ /\ (ev'.op = "add" /\ HasCat(ss.budgets, ev'.group, ev'.name) =>
            /\ ~ev'.fired
            /\ Data(ss') = Data(ss)
            /\ db' = db)
      /\ (ev'.op = "add" /\ ev'.name # "" /\ ss'.selected_month = ss.selected_month
             /\ ~HasCat(ss.budgets, ev'.group, ev'.name) =>
            /\ ev'.fired
            /\ HasCat(ss'.budgets, ev'.group, ev'.name)
            /\ ss'.budgets[ev'.group][ev'.name] = Cat(ev'.val, 0)
            /\ OthersUnchanged(ev'.group, ev'.name))
      /\ (ev'.op \in {"spent", "budget", "paid"} => OthersUnchanged(ev'.group, ev'.name))
    ]_vars

C8_Witness ==
  /\ ev.op = "add"
  /\ ~ev.fired
  /\ ev.group = "EMI"
  /\ ev.name = "Grocery"
  /\ HasCat(ss.budgets, "EMI", "Grocery")
  /\ HasCat(ss.budgets, "Variable Expenses", "Grocery")
  /\ HasCat(ss.budgets, "Variable Expenses", "grocery")
  /\ ss.budgets["EMI"]["Grocery"] # ss.budgets["Variable Expenses"]["Grocery"]

\* The stored row of the month being loaded is damaged.
Damaged(u, m) ==
  /\ db[u][m].present
  /\ ~(db[u][m].budgets.valid /\ db[u][m].loans.valid /\ db[u][m].lending.valid)

\* C9 as stated: when the stored row cannot be loaded the load does not crash
\* and the state falls back to the empty state (income 0, no items, no loans,
\* no lending) for every selected month.
C9_FallbackEmpty ==
  [][ (ev'.load # "none" /\ Damaged(ss.user_id, LoadedMonth')) =>
        Data(ss') = EmptyData
    ]_vars

\* C9 as amended: when the stored row cannot be loaded (its text is not JSON)
\* the load does not crash and the row is treated as absent: the empty state
\* for a month that is not the current one, the built-in defaults (income
\* 104000, the default items) for the current month.
C9_FallbackAsAbsent ==
  [][ (ev'.load # "none" /\ Damaged(ss.user_id, LoadedMonth')) =>
        /\ Data(ss') = IF LoadedMonth' = now' THEN DefaultData ELSE EmptyData
        /\ Data(ss') = Data(load_data(ss, [db EXCEPT ![ss.user_id][LoadedMonth'] = NoRow], now))
        /\ ss'.data_loaded
        /\ db' = db
    ]_vars

C9_Witness ==
  /\ ev.load = "defaults"
  /\ Damaged(ss.user_id, LoadedMonth)
  /\ Data(ss) = DefaultData
  /\ Data(ss) # EmptyData

\* C10: total budgeted is the sum of the budgets of all items of all groups and
\* does not depend on what is spent: a spent edit or a paid toggle leaves it
\* unchanged.
C10_TotalBudgeted ==
  [][ /\ (metrics'.shown /\ ~rerun' =>
            metrics'.total_budgeted = SumOver(ss'.budgets, Keys(ss'.budgets), "budget"))
      /\ (ev'.op \in {"spent", "paid"} \/ (ev'.op = "rerun" /\ ev'.fired) =>
            /\ total_budget(ss'.budgets) = total_budget(ss.budgets)
            /\ \A k \in Keys(ss.budgets) :
                 /\ HasCat(ss'.budgets, k[1], k[2])
                 /\ ss'.budgets[k[1]][k[2]].budget = ss.budgets[k[1]][k[2]].budget)
    ]_vars

C10_Witness ==
  /\ ev.op = "spent"
  /\ ev.fired
  /\ Displayed
  /\ metrics.spent = 1000
  /\ metrics.total_budgeted = 104000

\* C11: a budget input that returns the item's current budget is a no-op: the
\* in-memory data (every budget and every spent amount) is unchanged and
\* nothing is written to the store.
C11_BudgetNoOp ==
  [][ (/\ ev'.op = "budget"
       /\ HasCat(ss.budgets, ev'.group, ev'.name)
       /\ ev'.val = ss.budgets[ev'.group][ev'.name].budget) =>
        /\ ~ev'.fired
        /\ Data(ss') = Data(ss)
        /\ db' = db
    ]_vars

C11_Witness ==
  /\ ev.op = "budget"
  /\ ~ev.fired
  /\ ~rerun
  /\ HasCat(ss.budgets, ev.group, ev.name)
  /\ ev.val = 1000
  /\ ss.budgets[ev.group][ev.name] = Cat(1000, 1000)

\* C12: a spent input of an item sets that item's spent to the value given and
\* leaves its budget, every other item, the income, the loans and the lending
\* as they were; when the value given is what is spent already, nothing
\* changes and nothing is written.
C12_SetSpent ==
  [][ /\ (/\ ev'.op = "spent"
          /\ HasCat(ss.budgets, ev'.group, ev'.name)
          /\ ss'.selected_month = ss.selected_month) =>
            /\ HasCat(ss'.budgets, ev'.group, ev'.name)
            /\ ss'.budgets[ev'.group][ev'.name].spent = ev'.val
            /\ ss'.budgets[ev'.group][ev'.name].budget = ss.budgets[ev'.group][ev'.name].budget
            /\ OthersUnchanged(ev'.group, ev'.name)
            /\ Keys(ss'.budgets) = Keys(ss.budgets)
            /\ ss'.income = ss.income /\ ss'.loans = ss.loans /\ ss'.lending = ss.lending
      /\ (/\ ev'.op = "spent"
          /\ HasCat(ss.budgets, ev'.group, ev'.name)
          /\ ev'.val = ss.budgets[ev'.group][ev'.name].spent) =>
            /\ ~ev'.fired
            /\ Data(ss') = Data(ss)
            /\ db' = db
    ]_vars

C12_Witness ==
  /\ ev.op = "spent"
  /\ ev.fired
  /\ ev.old = Cat(8000, 1000)
  /\ ev.val = 0
  /\ ss.budgets[ev.group][ev.name] = Cat(8000, 0)

\* C13: the weekly guide never shows a negative per-week figure: when the
\* remaining amount it divides is zero or less, the figure shown is 0.
C13_WeeklyNonNegative ==
  Displayed =>
    \A c \in DOMAIN metrics.weekly :
       /\ metrics.weekly[c].weekly_allowance >= 0
       /\ (metrics.weekly[c].remaining <= 0 => metrics.weekly[c].weekly_allowance = 0)

\* C14: the weekly figure is the remaining of the main metrics divided by the
\* weeks remaining in the month, max(1, totalWeeks - currentWeekIndex), and
\* truncated to an integer.  Stated for whatever week the calendar is in: some
\* number of remaining weeks (a month has at most 6) gives the figures shown.
C14_WeeklyFromRemaining ==
  (Displayed /\ DOMAIN metrics.weekly # {}) =>
    \E weeksRemaining \in 1..6 :
       \A c \in DOMAIN metrics.weekly :
          metrics.weekly[c].weekly_allowance = int_div(metrics.remaining, weeksRemaining)

\* C15: the weekly guide reads items of the group "Variable Expenses" only:
\* every card it shows is that of an item of this group and shows this item's
\* budget and spent, whatever items of the same name other groups have.
C15_WeeklyOnlyVariableGroup ==
  Displayed =>
    \A c \in DOMAIN metrics.weekly :
       /\ HasCat(ss.budgets, "Variable Expenses", c)
       /\ metrics.weekly[c].budget = ss.budgets["Variable Expenses"][c].budget
       /\ metrics.weekly[c].spent = ss.budgets["Variable Expenses"][c].spent

\* C16: ticking the paid box of an unpaid item sets its spent to its budget;
\* unticking the box of a paid item sets its spent to 0 and leaves the item
\* unpaid (spent # budget), for every budget, 0 included; no other item changes.
C16_PaidToggle ==
  [][ (ev'.by.op = "paid") =>
        /\ HasCat(ss'.budgets, ev'.by.group, ev'.by.name)
        /\ ss'.budgets[ev'.by.group][ev'.by.name].budget = ev'.old.budget
        /\ (ev'.old.spent # ev'.old.budget =>
              ss'.budgets[ev'.by.group][ev'.by.name].spent = ev'.old.budget)
        /\ (ev'.old.spent = ev'.old.budget =>
              /\ ss'.budgets[ev'.by.group][ev'.by.name].spent = 0
              /\ ~is_paid(ss'.budgets[ev'.by.group][ev'.by.name]))
        /\ OthersUnchanged(ev'.by.group, ev'.by.name)
    ]_vars

\* C17: a user action is followed by finitely many reruns.  The script is a
\* function of the session, the store and the month: a rerun that leaves all of
\* them as they were and ends in st.rerun() again is repeated for ever, so no
\* outstanding rerun may do that.
C17_Quiescence ==
  rerun =>
    \A o \in {Script(ss, paid_widget, db, now, NoEvent)} :
       ~(o.rerun /\ o.ss = ss /\ o.paid_widget = paid_widget /\ o.db = db)

\* C18: switching to another month and viewing it writes nothing: the switch
\* and the load that follows leave every stored row as it was, no handler
\* fires, and the data in memory afterwards is the stored row of the month
\* entered, or the defaults when it has none.
C18_SwitchWritesNothing ==
  [][ /\ (ev'.op = "select" => (db' = db /\ ~ev'.fired /\ Data(ss') = Data(ss)))
      /\ (ev'.load # "none" /\ ss.last_loaded_month \notin {NoMonth, LoadedMonth'}) =>
            /\ db' = db
            /\ ~ev'.fired
            /\ Data(ss') = IF db[ss.user_id][LoadedMonth'].present
                           THEN RowData(db[ss.user_id][LoadedMonth'])
                           ELSE DefaultData
    ]_vars

C18_Witness ==
  /\ ev.op = "rerun"
  /\ ev.load = "row"
  /\ ~rerun
  /\ ev.from \notin {NoMonth, LoadedMonth}
  /\ ~db[ss.user_id][ev.from].present
  /\ Data(ss) = RowData(db[ss.user_id][LoadedMonth])
  /\ Data(ss) # DefaultData

====
